---- MODULE Spec2Model ----
(***************************************************************************)
(* Model of rutify (src/index.js): formatting and validation of Chilean    *)
(* RUT identifiers.  Every public operation is a pure function of its      *)
(* arguments; the state machine draws an input and an options object and   *)
(* applies one operation to them.                                          *)
(*                                                                         *)
(* JavaScript strings are sequences of one-character strings.  JavaScript  *)
(* values are tagged records [type, val]; an exception that leaves a       *)
(* function is a value of type "throw".                                    *)
(***************************************************************************)
EXTENDS Integers, Sequences, FiniteSets, TLC

VARIABLES input, options, op, result

vars == <<input, options, op, result>>

-----------------------------------------------------------------------------
(* JavaScript values *)

Str(s) == [type |-> "string", val |-> s]

False == [type |-> "boolean", val |-> <<"false">>]

True == [type |-> "boolean", val |-> <<"true">>]

Null == [type |-> "null", val |-> <<"null">>]

Undefined == [type |-> "undefined", val |-> <<"undefined">>]

Bool(b) == IF b THEN True ELSE False

Throw(code, message) == [type |-> "throw", val |-> <<code, message>>]

IsString(v) == v.type = "string"

-----------------------------------------------------------------------------
(* Characters and the String.prototype methods the code uses *)

Digits == {"0", "1", "2", "3", "4", "5", "6", "7", "8", "9"}

DigitValue(c) ==
    CASE c = "0" -> 0 [] c = "1" -> 1 [] c = "2" -> 2 [] c = "3" -> 3
      [] c = "4" -> 4 [] c = "5" -> 5 [] c = "6" -> 6 [] c = "7" -> 7
      [] c = "8" -> 8 [] c = "9" -> 9

DigitChar(n) ==
    CASE n = 0 -> "0" [] n = 1 -> "1" [] n = 2 -> "2" [] n = 3 -> "3"
      [] n = 4 -> "4" [] n = 5 -> "5" [] n = 6 -> "6" [] n = 7 -> "7"
      [] n = 8 -> "8" [] n = 9 -> "9"

\* the characters matched by \s among those the model draws
Whitespace == {" "}

UpperChar(c) ==
    CASE c = "k" -> "K" [] c = "a" -> "A" [] c = "x" -> "X" [] OTHER -> c

toUpperCase(s) == [i \in 1..Len(s) |-> UpperChar(s[i])]

Min(a, b) == IF a < b THEN a ELSE b

Max(a, b) == IF a > b THEN a ELSE b

\* s.slice(from, to) with 0-based, possibly negative, indices
slice(s, from, to) ==
    LET n == Len(s)
        a == IF from < 0 THEN Max(n + from, 0) ELSE Min(from, n)
        b == IF to < 0 THEN Max(n + to, 0) ELSE Min(to, n)
    IN  IF a >= b THEN <<>> ELSE SubSeq(s, a + 1, b)

\* s.slice(from)
sliceFrom(s, from) == slice(s, from, Len(s))

RECURSIVE trimStart(_)
trimStart(s) ==
    IF s # <<>> /\ Head(s) \in Whitespace THEN trimStart(Tail(s)) ELSE s

RECURSIVE trimEnd(_)
trimEnd(s) ==
    IF s # <<>> /\ s[Len(s)] \in Whitespace
    THEN trimEnd(SubSeq(s, 1, Len(s) - 1))
    ELSE s

trim(s) == trimEnd(trimStart(s))

\* s.replace(/[set]/g, '') : drop every character that is in drop
RemoveChars(s, drop) == SelectSeq(s, LAMBDA c : c \notin drop)

\* s.replace(/[^set]+/g, '') : keep only the characters that are in keep
KeepChars(s, keep) == SelectSeq(s, LAMBDA c : c \in keep)

AllDigits(s) == \A i \in 1..Len(s) : s[i] \in Digits

\* mutant: the pattern forgets the check digit K (/^[0-9]+[0-9]$/)
MatchesRutShapeNoK(s) ==
    /\ Len(s) >= 2
    /\ AllDigits(s)

\* /^[0-9]+[0-9K]$/.test(s)
MatchesRutShape(s) ==
    /\ Len(s) >= 2
    /\ AllDigits(SubSeq(s, 1, Len(s) - 1))
    /\ s[Len(s)] \in Digits \cup {"K"}

\* /^[0-9]+$/.test(s), which is also /^\d+$/.test(s)
MatchesDigits(s) == Len(s) >= 1 /\ AllDigits(s)

-----------------------------------------------------------------------------
(* Options *)

StandardFormat == Str(<<"s", "t", "a", "n", "d", "a", "r", "d">>)

CompactFormat == Str(<<"c", "o", "m", "p", "a", "c", "t">>)

CleanFormat == Str(<<"c", "l", "e", "a", "n">>)

DEFAULT_OPTIONS ==
    [separator |-> Str(<<".">>), strict |-> FALSE, normalize |-> TRUE,
     format |-> StandardFormat]

validFormats == {StandardFormat, CompactFormat, CleanFormat}

\* { ...DEFAULT_OPTIONS, ...options } : an options object is a function from
\* the keys the caller gave to their values
MergeOptions(opts) ==
    LET get(k) == IF k \in DOMAIN opts THEN opts[k] ELSE DEFAULT_OPTIONS[k]
    IN  [separator |-> get("separator"), strict |-> get("strict"),
         normalize |-> get("normalize"), format |-> get("format")]

\* returns the merged options, or the RutifyError it throws
validateAndMergeOptions(opts) ==
    LET merged == MergeOptions(opts)
    IN  IF ~IsString(merged.separator) \/ Len(merged.separator.val) # 1
        THEN Throw("INVALID_OPTION", "Separator must be a single character")
        ELSE IF merged.format \notin validFormats
        THEN Throw("INVALID_OPTION", "Format must be one of: standard, compact, clean")
        ELSE merged

IsThrow(v) == "type" \in DOMAIN v /\ v.type = "throw"

-----------------------------------------------------------------------------
(* Sanitizer and shape validator *)

\* mutant: without normalization the dash is not removed (/[.\s]/g)
sanitizeInputKeepsDash(str, normalizeFlag) ==
    IF ~IsString(str) THEN <<>>
    ELSE IF normalizeFlag
         THEN toUpperCase(KeepChars(trim(str.val), Digits \cup {"k", "K"}))
         ELSE toUpperCase(RemoveChars(trim(str.val), {"."} \cup Whitespace))

\* returns the sanitized characters (a JavaScript string, always)
sanitizeInput(str, normalizeFlag) ==
    IF ~IsString(str) THEN <<>>
    ELSE IF normalizeFlag
         THEN toUpperCase(KeepChars(trim(str.val), Digits \cup {"k", "K"}))
         ELSE toUpperCase(RemoveChars(trim(str.val), {".", "-"} \cup Whitespace))

cleanRutString(str, normalizeFlag) == sanitizeInput(str, normalizeFlag)

\* mutant: the shape check accepts a lone check digit (length test "< 1"
\* and the pattern /^[0-9]*[0-9K]$/)
isValidRutInputLoneDigit(str, strict) ==
    IF ~IsString(str) THEN FALSE
    ELSE LET cleaned == cleanRutString(str, TRUE)
         IN  IF Len(cleaned) < 1 THEN FALSE
             ELSE AllDigits(SubSeq(cleaned, 1, Len(cleaned) - 1))
                  /\ cleaned[Len(cleaned)] \in Digits \cup {"K"}

isValidRutInput(str, strict) ==
    IF ~IsString(str) THEN FALSE
    ELSE LET cleaned == cleanRutString(str, TRUE)
         IN  IF Len(cleaned) < 2 THEN FALSE
             ELSE IF strict
                  THEN MatchesRutShape(cleaned)
                       /\ MatchesDigits(slice(cleaned, 0, -1))
                  ELSE MatchesRutShape(cleaned)

isEmptyString(str) == ~IsString(str) \/ Len(trim(str.val)) = 0

isValidRutBody(body) == IsString(body) /\ MatchesDigits(body.val) /\ Len(body.val) >= 1

-----------------------------------------------------------------------------
(* Number values.  generateCheckDigit computes with IEEE-754 doubles.  A    *)
(* non-negative integer-valued double is modelled by its exact decimal      *)
(* expansion: a sequence of digit values, most significant first, without   *)
(* leading zeros (<<>> is 0).  Only the values with a 53-bit significand    *)
(* are doubles; parseInt and the division round to them.                    *)

RECURSIVE StripZeros(_)
StripZeros(a) == IF a # <<>> /\ Head(a) = 0 THEN StripZeros(Tail(a)) ELSE a

RECURSIVE BigLessFrom(_, _, _)
BigLessFrom(a, b, i) ==
    IF i > Len(a) THEN FALSE
    ELSE IF a[i] # b[i] THEN a[i] < b[i]
    ELSE BigLessFrom(a, b, i + 1)

BigLess(a, b) ==
    IF Len(a) # Len(b) THEN Len(a) < Len(b) ELSE BigLessFrom(a, b, 1)

BigIsOdd(a) == a # <<>> /\ a[Len(a)] % 2 = 1

BigModTen(a) == IF a = <<>> THEN 0 ELSE a[Len(a)]

BigDivTen(a) == IF a = <<>> THEN <<>> ELSE SubSeq(a, 1, Len(a) - 1)

RECURSIVE BigHalfFrom(_, _, _, _)
BigHalfFrom(a, i, carry, acc) ==
    IF i > Len(a) THEN [q |-> StripZeros(acc), r |-> carry]
    ELSE LET cur == carry * 10 + a[i]
         IN  BigHalfFrom(a, i + 1, cur % 2, Append(acc, cur \div 2))

\* a \div 2 and a % 2
BigHalf(a) == BigHalfFrom(a, 1, 0, <<>>)

RECURSIVE BigTwiceFrom(_, _, _, _)
BigTwiceFrom(a, i, carry, acc) ==
    IF i = 0 THEN (IF carry > 0 THEN <<carry>> \o acc ELSE acc)
    ELSE LET cur == 2 * a[i] + carry
         IN  BigTwiceFrom(a, i - 1, cur \div 10, <<cur % 10>> \o acc)

BigTwice(a) == BigTwiceFrom(a, Len(a), 0, <<>>)

RECURSIVE BigIncFrom(_, _, _)
BigIncFrom(a, i, acc) ==
    IF i = 0 THEN <<1>> \o acc
    ELSE IF a[i] = 9 THEN BigIncFrom(a, i - 1, <<0>> \o acc)
    ELSE SubSeq(a, 1, i - 1) \o <<a[i] + 1>> \o acc

BigInc(a) == BigIncFrom(a, Len(a), <<>>)

\* 2^50, 2^52 and 2^53
TwoPow50 == <<1, 1, 2, 5, 8, 9, 9, 9, 0, 6, 8, 4, 2, 6, 2, 4>>

TwoPow52 == <<4, 5, 0, 3, 5, 9, 9, 6, 2, 7, 3, 7, 0, 4, 9, 6>>

TwoPow53 == <<9, 0, 0, 7, 1, 9, 9, 2, 5, 4, 7, 4, 0, 9, 9, 2>>

\* m shifted right until it has at most 53 bits: the kept bits m, the number
\* k of dropped bits, the last dropped bit rnd and whether any bit dropped
\* before it was set
RECURSIVE ShiftRight53(_, _, _, _)
ShiftRight53(m, k, rnd, sticky) ==
    IF BigLess(m, TwoPow53) THEN [m |-> m, k |-> k, rnd |-> rnd, sticky |-> sticky]
    ELSE LET h == BigHalf(m)
         IN  ShiftRight53(h.q, k + 1, h.r = 1, sticky \/ rnd)

RECURSIVE ScaleUp(_, _)
ScaleUp(m, k) == IF k = 0 THEN m ELSE ScaleUp(BigTwice(m), k - 1)

RECURSIVE ScaleDown(_, _)
ScaleDown(m, k) == IF k = 0 THEN m ELSE ScaleDown(BigHalf(m).q, k - 1)

\* the double nearest to n + f, ties to even, for an integer n >= 2^53 and
\* a fraction 0 <= f < 1/2 that is non-zero exactly when fraction is TRUE
RoundLarge(n, fraction) ==
    LET sh == ShiftRight53(n, 0, FALSE, FALSE)
        up == sh.rnd /\ (sh.sticky \/ fraction \/ BigIsOdd(sh.m))
    IN  ScaleUp(IF up THEN BigInc(sh.m) ELSE sh.m, sh.k)

\* parseInt(body, 10) for a body of digits: the double nearest to its value
parseInt(s) ==
    LET n == StripZeros([i \in 1..Len(s) |-> DigitValue(s[i])])
    IN  IF BigLess(n, TwoPow53) THEN n ELSE RoundLarge(n, FALSE)

\* the least j with (2^j * x) \div 10 >= 2^52
RECURSIVE ScaleBits(_, _)
ScaleBits(x, j) ==
    IF BigLess(BigDivTen(x), TwoPow52) THEN ScaleBits(BigTwice(x), j + 1) ELSE j

\* Math.floor(x / 10): the quotient is rounded to the nearest double, ties to
\* even, and then floored.
\*  - below 2^50 the doubles are at most 1/8 apart and the fraction of x / 10
\*    is at most 9/10, so the rounded quotient stays below the next integer;
\*  - from 2^50 to 2^53 the quotient is rounded at 53 bits of 2^j * x / 10;
\*  - from 2^53 on the doubles are integers.
MathFloorDiv10(x) ==
    LET q == BigDivTen(x)
        r == BigModTen(x)
    IN  IF BigLess(q, TwoPow50) THEN q
        ELSE IF BigLess(q, TwoPow53)
        THEN LET j == ScaleBits(x, 0)
                 y == ScaleUp(x, j)
                 m == BigDivTen(y)
                 rem == BigModTen(y)
                 up == rem > 5 \/ (rem = 5 /\ BigIsOdd(m))
             IN  ScaleDown(IF up THEN BigInc(m) ELSE m, j)
        ELSE RoundLarge(q, r > 0)

-----------------------------------------------------------------------------
(* Checksum engine *)

\* the while loop of generateCheckDigit; returns the final sum
RECURSIVE CheckDigitLoop(_, _, _)
CheckDigitLoop(tempRut, sum, multiplier) ==
    IF tempRut = <<>> THEN sum
    ELSE CheckDigitLoop(MathFloorDiv10(tempRut),
                        sum + BigModTen(tempRut) * multiplier,
                        IF multiplier = 7 THEN 2 ELSE multiplier + 1)

generateCheckDigit(body) ==
    IF ~isValidRutBody(body) THEN False
    ELSE LET rutDigits == parseInt(body.val)
             sum == CheckDigitLoop(rutDigits, 0, 2)
             remainder == sum % 11
         IN  IF remainder = 0 THEN Str(<<"0">>)
             ELSE IF remainder = 1 THEN Str(<<"K">>)
             ELSE Str(<<DigitChar(11 - remainder)>>)

-----------------------------------------------------------------------------
(* Formatter and the public operations *)

\* mutant: the segment starts one character too early (i - 3)
RECURSIVE StandardLoopOverlap(_, _, _, _)
StandardLoopOverlap(body, separator, i, formattedBody) ==
    IF i < 0 THEN formattedBody
    ELSE LET start == Max(0, i - 3)
             segment == slice(body, start, i + 1)
         IN  StandardLoopOverlap(body, separator, i - 3,
                                 segment \o (IF formattedBody # <<>>
                                             THEN separator \o formattedBody
                                             ELSE formattedBody))

\* the for loop of the 'standard' case: i runs from body.length - 1 down in
\* steps of 3
RECURSIVE StandardLoop(_, _, _, _)
StandardLoop(body, separator, i, formattedBody) ==
    IF i < 0 THEN formattedBody
    ELSE LET start == Max(0, i - 2)
             segment == slice(body, start, i + 1)
         IN  StandardLoop(body, separator, i - 3,
                          segment \o (IF formattedBody # <<>>
                                      THEN separator \o formattedBody
                                      ELSE formattedBody))

\* the try block of rutify
rutifyTry(str, opts) ==
    LET config == validateAndMergeOptions(opts)
    IN  IF IsThrow(config) THEN config
        ELSE IF isEmptyString(str) THEN False
        ELSE IF ~isValidRutInput(str, config.strict) THEN False
        ELSE LET clearRut == cleanRutString(str, config.normalize)
                 body == slice(clearRut, 0, -1)
                 checkDigit == sliceFrom(clearRut, -1)
             IN  IF config.format = CompactFormat
                 THEN Str(body \o <<"-">> \o checkDigit)
                 ELSE IF config.format = CleanFormat
                 THEN Str(body \o checkDigit)
                 ELSE Str(StandardLoop(body, config.separator.val, Len(body) - 1, <<>>)
                          \o <<"-">> \o checkDigit)

\* mutant: rutify without its catch clause
rutifyUncaught(str, opts) == rutifyTry(str, opts)

rutify(str, opts) ==
    LET r == rutifyTry(str, opts) IN IF IsThrow(r) THEN False ELSE r

\* mutant: the body keeps the check digit (slice(0) for slice(0, -1))
validateRutTryWholeBody(str, opts) ==
    LET config == validateAndMergeOptions(opts)
    IN  IF IsThrow(config) THEN config
        ELSE IF isEmptyString(str) THEN False
        ELSE IF ~isValidRutInput(str, config.strict) THEN False
        ELSE LET clearRut == cleanRutString(str, config.normalize)
                 body == Str(sliceFrom(clearRut, 0))
                 providedCheckDigit == Str(sliceFrom(clearRut, -1))
             IN  IF config.strict /\ Len(clearRut) < 2 THEN False
                 ELSE IF ~isValidRutBody(body) THEN False
                 ELSE LET calculatedCheckDigit == generateCheckDigit(body)
                      IN  IF calculatedCheckDigit = False THEN False
                          ELSE Bool(calculatedCheckDigit = providedCheckDigit)

\* the try block of validateRut
validateRutTry(str, opts) ==
    LET config == validateAndMergeOptions(opts)
    IN  IF IsThrow(config) THEN config
        ELSE IF isEmptyString(str) THEN False
        ELSE IF ~isValidRutInput(str, config.strict) THEN False
        ELSE LET clearRut == cleanRutString(str, config.normalize)
                 body == Str(slice(clearRut, 0, -1))
                 providedCheckDigit == Str(sliceFrom(clearRut, -1))
             IN  IF config.strict /\ Len(clearRut) < 2 THEN False
                 ELSE IF ~isValidRutBody(body) THEN False
                 ELSE LET calculatedCheckDigit == generateCheckDigit(body)
                      IN  IF calculatedCheckDigit = False THEN False
                          ELSE Bool(calculatedCheckDigit = providedCheckDigit)

validateRut(str, opts) ==
    LET r == validateRutTry(str, opts) IN IF IsThrow(r) THEN False ELSE r

RutifyResult(formatted, isValid, error, body, checkDigit) ==
    [formatted |-> formatted, isValid |-> isValid, error |-> error,
     body |-> body, checkDigit |-> checkDigit]

\* the try block of rutifyAndValidate
rutifyAndValidateTry(str, opts) ==
    LET config == validateAndMergeOptions(opts)
    IN  IF IsThrow(config) THEN config
        ELSE IF isEmptyString(str)
        THEN RutifyResult(False, False, Str(<<"Empty or invalid input">>), Null, Null)
        ELSE LET clearRut == cleanRutString(str, config.normalize)
                 body == Str(slice(clearRut, 0, -1))
                 checkDigit == Str(sliceFrom(clearRut, -1))
                 formatted == rutify(str, config)
                 isValid == validateRut(str, config)
             IN  RutifyResult(formatted, isValid, Null,
                              IF isValidRutBody(body) THEN body ELSE Null,
                              IF isValidRutBody(body) THEN checkDigit ELSE Null)

rutifyAndValidate(str, opts) ==
    LET r == rutifyAndValidateTry(str, opts)
    IN  IF IsThrow(r)
        THEN RutifyResult(False, False, Str(<<r.val[2]>>), Null, Null)
        ELSE r

\* mutant: the body keeps the check digit (slice(0) for slice(0, -1))
extractBodyTryWholeBody(str, opts) ==
    LET config == validateAndMergeOptions(opts)
    IN  IF IsThrow(config) THEN config
        ELSE IF ~isValidRutInput(str, config.strict) THEN False
        ELSE LET clearRut == cleanRutString(str, config.normalize)
                 body == Str(sliceFrom(clearRut, 0))
             IN  IF isValidRutBody(body) THEN body ELSE False

\* the try block of extractBody
extractBodyTry(str, opts) ==
    LET config == validateAndMergeOptions(opts)
    IN  IF IsThrow(config) THEN config
        ELSE IF ~isValidRutInput(str, config.strict) THEN False
        ELSE LET clearRut == cleanRutString(str, config.normalize)
                 body == Str(slice(clearRut, 0, -1))
             IN  IF isValidRutBody(body) THEN body ELSE False

extractBody(str, opts) ==
    LET r == extractBodyTry(str, opts) IN IF IsThrow(r) THEN False ELSE r

\* the try block of extractCheckDigit
extractCheckDigitTry(str, opts) ==
    LET config == validateAndMergeOptions(opts)
    IN  IF IsThrow(config) THEN config
        ELSE IF ~isValidRutInput(str, config.strict) THEN False
        ELSE LET clearRut == cleanRutString(str, config.normalize)
                 body == Str(slice(clearRut, 0, -1))
                 checkDigit == Str(sliceFrom(clearRut, -1))
             IN  IF isValidRutBody(body) THEN checkDigit ELSE False

extractCheckDigit(str, opts) ==
    LET r == extractCheckDigitTry(str, opts) IN IF IsThrow(r) THEN False ELSE r

normalize(str) ==
    IF isEmptyString(str) THEN False
    ELSE LET normalized == Str(cleanRutString(str, TRUE))
         IN  IF isValidRutInput(normalized, FALSE) THEN normalized ELSE False

isFormat(str, format) ==
    IF isEmptyString(str) \/ ~IsString(format) THEN False
    ELSE LET formatted == rutify(str, [format |-> format])
         IN  Bool(formatted # False /\ formatted = str)

-----------------------------------------------------------------------------
(* The standalone legacy functions *)

\* typeof str === 'string' ? str.replace(/[^0-9kK]+/g, '').toUpperCase() : ''
legacyClean(str) ==
    IF IsString(str)
    THEN toUpperCase(KeepChars(str.val, Digits \cup {"k", "K"}))
    ELSE <<>>

\* mutant: the loop starts at i = 3, one character too early
RECURSIVE legacyLoopFromThree(_, _, _)
legacyLoopFromThree(clearRut, i, acc) ==
    IF i < Len(clearRut)
    THEN legacyLoopFromThree(clearRut, i + 3,
                             slice(clearRut, -3 - i, -i) \o <<".">> \o acc)
    ELSE acc

\* for (var i = 4; i < clearRut.length; i += 3)
RECURSIVE legacyLoop(_, _, _)
legacyLoop(clearRut, i, acc) ==
    IF i < Len(clearRut)
    THEN legacyLoop(clearRut, i + 3,
                    slice(clearRut, -3 - i, -i) \o <<".">> \o acc)
    ELSE acc

\* mutant: legacy rutify with the loop started at i = 3
legacyRutifyFromThree(str) ==
    LET clearRut == legacyClean(str)
    IN  IF Len(clearRut) <= 1 THEN False
        ELSE Str(legacyLoopFromThree(clearRut, 3,
                     slice(clearRut, -4, -1) \o <<"-">>
                         \o sliceFrom(clearRut, Len(clearRut) - 1)))

\* the legacy rutify(str); its result is always a string, so the final typeof
\* test never returns false
legacyRutify(str) ==
    LET clearRut == legacyClean(str)
    IN  IF Len(clearRut) <= 1 THEN False
        ELSE Str(legacyLoop(clearRut, 4,
                     slice(clearRut, -4, -1) \o <<"-">>
                         \o sliceFrom(clearRut, Len(clearRut) - 1)))

\* the digits that parseInt reads: the longest prefix of digits
RECURSIVE DigitPrefix(_)
DigitPrefix(s) ==
    IF s # <<>> /\ Head(s) \in Digits THEN <<Head(s)>> \o DigitPrefix(Tail(s))
    ELSE <<>>

\* the while loop of the legacy validateRut; returns the final s
RECURSIVE legacyValidateLoop(_, _, _)
legacyValidateLoop(rutDigits, m, s) ==
    IF rutDigits = <<>> THEN s
    ELSE legacyValidateLoop(MathFloorDiv10(rutDigits), m + 1,
                            (s + BigModTen(rutDigits) * (9 - (m % 6))) % 11)

\* the legacy validateRut(str). parseInt gives NaN when no digit leads the
\* body; NaN > 0 is false, so the loop is skipped exactly as it is for 0.
legacyValidateRut(str) ==
    LET rut == legacyClean(str)
        rutDigits == parseInt(DigitPrefix(slice(rut, 0, -1)))
        s == legacyValidateLoop(rutDigits, 0, 1)
        checkDigit == IF s > 0 THEN <<DigitChar(s - 1)>> ELSE <<"K">>
    IN  Bool(checkDigit = sliceFrom(rut, -1))

-----------------------------------------------------------------------------
(* Inputs and options the model draws *)

\* longest drawn run of arbitrary characters
MaxRawLen == 2

\* longest drawn run of digits (or K) after a fixed digit prefix
MaxDigitLen == 3

SeqsUpTo(S, n) == UNION {[1..k -> S] : k \in 0..n}

\* characters of raw inputs: a digit, k, separators, whitespace, a letter
RawChars == {"7", "k", ".", "-", " ", "a"}

RawPrefixes ==
    {<<>>, <<"1", "2">>, <<"1", "2", "3", "4">>, <<"1", "2", "3", "4", "5", "6">>}

\* the inputs of the README, the doc comments and the tests
DocumentedInputs ==
    {Str(<<"1", "8", "9", "2", "7", "5", "8", "9", "-", "7">>),
     Str(<<"1", "8", ".", "9", "2", "7", ".", "5", "8", "9", "-", "7">>),
     Str(<<"1", "8", ".", "9", "2", "7", ".", "5", "8", "9", "-", "8">>),
     Str(<<"2", "0", "9", "0", "1", "7", "9", "2", "K">>),
     Str(<<"2", "0", ".", "9", "0", "1", ".", "7", "9", "2", "-", "K">>),
     Str(<<"2", "0", ".", "9", "0", "1", ".", "7", "9", "2", "-", "1">>),
     Str(<<"1", "8", "9", "2", "7", "5", "8", "9">>),
     Str(<<"1", "2", "3">>),
     Str(<<"a", "b", "c">>)}

RawInputs ==
    {Str(p \o s) : p \in RawPrefixes, s \in SeqsUpTo(RawChars, MaxRawLen)}
    \cup DocumentedInputs

\* digit prefixes: none, six digits (the weight cycle wraps at the seventh
\* digit), and fourteen digits that put the drawn bodies around 2^53
BodyPrefixes ==
    {<<>>,
     <<"1", "8", "9", "2", "7", "5">>,
     <<"9", "0", "0", "7", "1", "9", "9", "2", "5", "4", "7", "4", "0", "9">>}

\* a body of 20 digits
LongBody ==
    <<"1", "2", "3", "4", "5", "6", "7", "8", "9", "0",
      "1", "2", "3", "4", "5", "6", "7", "8", "9", "0">>

ChecksumInputs ==
    {Str(p \o s) : p \in BodyPrefixes, s \in SeqsUpTo(Digits \cup {"K"}, MaxDigitLen)}
    \cup {Str(<<"a", "b", "c">>), Null, Str(LongBody)}

\* bodies of 1 .. 6 + MaxRawLen digits, each followed by its check digit
FormatBodies ==
    {p \o s : p \in RawPrefixes, s \in SeqsUpTo({"0", "7"}, MaxRawLen)} \ {<<>>}

ValidRuts == {Str(b \o generateCheckDigit(Str(b)).val) : b \in FormatBodies}

Separators == {Str(<<".">>), Str(<<" ">>), Str(<<"x">>), Str(<<"2">>)}

ValidOptions ==
    {[separator |-> s, strict |-> st, normalize |-> n, format |-> f] :
        s \in Separators, st \in BOOLEAN, n \in BOOLEAN, f \in validFormats}

InvalidOptions ==
    {[separator |-> Str(<<>>)],
     [separator |-> Str(<<".", ".">>)],
     [separator |-> Null],
     [format |-> Str(<<"x">>)],
     [format |-> Null],
     [separator |-> Str(<<>>), format |-> CleanFormat, normalize |-> FALSE]}

PartialOptions ==
    {<<>>,
     [format |-> CompactFormat],
     [format |-> CleanFormat],
     [normalize |-> FALSE],
     [strict |-> TRUE],
     [separator |-> Str(<<" ">>)],
     [separator |-> Str(<<"x">>), normalize |-> FALSE]}

-----------------------------------------------------------------------------
(* State machine: one call of one public operation *)

TypeOK ==
    /\ op \in {"none", "rutify", "validateRut", "rutifyAndValidate", "extractBody",
               "extractCheckDigit", "generateCheckDigit", "normalize", "isFormat",
               "legacyRutify", "legacyValidateRut"}

InitWith(inputs, opts) ==
    /\ input \in inputs
    /\ options \in opts
    /\ op = "none"
    /\ result = Undefined

\* any input, any options object
Init == InitWith(RawInputs \cup {Null}, PartialOptions \cup InvalidOptions)

\* digit bodies with and without a check digit, default options
InitChecksum == InitWith(ChecksumInputs, {<<>>})

\* raw inputs and well-formed identifiers, every valid configuration
InitFormat == InitWith(RawInputs \cup ValidRuts, ValidOptions)

Rutify ==
    /\ op = "none"
    /\ op' = "rutify"
    /\ result' = rutify(input, options)
    /\ UNCHANGED <<input, options>>

ValidateRut ==
    /\ op = "none"
    /\ op' = "validateRut"
    /\ result' = validateRut(input, options)
    /\ UNCHANGED <<input, options>>

RutifyAndValidate ==
    /\ op = "none"
    /\ op' = "rutifyAndValidate"
    /\ result' = rutifyAndValidate(input, options)
    /\ UNCHANGED <<input, options>>

ExtractBody ==
    /\ op = "none"
    /\ op' = "extractBody"
    /\ result' = extractBody(input, options)
    /\ UNCHANGED <<input, options>>

ExtractCheckDigit ==
    /\ op = "none"
    /\ op' = "extractCheckDigit"
    /\ result' = extractCheckDigit(input, options)
    /\ UNCHANGED <<input, options>>

\* generateCheckDigit(body): the input is the body
GenerateCheckDigit ==
    /\ op = "none"
    /\ op' = "generateCheckDigit"
    /\ result' = generateCheckDigit(input)
    /\ UNCHANGED <<input, options>>

Normalize ==
    /\ op = "none"
    /\ op' = "normalize"
    /\ result' = normalize(input)
    /\ UNCHANGED <<input, options>>

\* isFormat(str, format): the format argument is the options' format, if any
FormatArgument == IF "format" \in DOMAIN options THEN options.format ELSE Undefined

IsFormat ==
    /\ op = "none"
    /\ op' = "isFormat"
    /\ result' = isFormat(input, FormatArgument)
    /\ UNCHANGED <<input, options>>

\* the legacy rutify(str)
LegacyRutify ==
    /\ op = "none"
    /\ op' = "legacyRutify"
    /\ result' = legacyRutify(input)
    /\ UNCHANGED <<input, options>>

\* the legacy validateRut(str)
LegacyValidateRut ==
    /\ op = "none"
    /\ op' = "legacyValidateRut"
    /\ result' = legacyValidateRut(input)
    /\ UNCHANGED <<input, options>>

Next ==
    \/ Rutify
    \/ ValidateRut
    \/ RutifyAndValidate
    \/ ExtractBody
    \/ ExtractCheckDigit
    \/ GenerateCheckDigit
    \/ Normalize
    \/ IsFormat

Spec == Init /\ [][Next]_vars

SpecChecksum == InitChecksum /\ [][Next]_vars

SpecFormat == InitFormat /\ [][Next]_vars

\* the legacy module exports its own two functions, which take no options
InitLegacy == InitWith(RawInputs \cup ValidRuts \cup {Null}, {<<>>})

NextLegacy ==
    \/ LegacyRutify
    \/ LegacyValidateRut

SpecLegacy == InitLegacy /\ [][NextLegacy]_vars

-----------------------------------------------------------------------------
(* Reference definitions used to state the properties *)

\* the body and the check digit of a string of the form digits + [0-9K]
BodyOf(s) == SubSeq(s, 1, Len(s) - 1)

LastOf(s) == s[Len(s)]

\* modulo-11 check digit computed on the digit sequence: the digit at
\* distance d from the right end has weight 2 + (d mod 6)
RECURSIVE RefWeightedSum(_, _)
RefWeightedSum(b, d) ==
    IF d >= Len(b) THEN 0
    ELSE DigitValue(b[Len(b) - d]) * (2 + (d % 6)) + RefWeightedSum(b, d + 1)

RefCheckDigit(b) ==
    LET r == RefWeightedSum(b, 0) % 11
    IN  IF r = 0 THEN "0" ELSE IF r = 1 THEN "K" ELSE DigitChar(11 - r)

\* the groups of a body: a leftmost group of 1 to 3 digits, then triplets
RECURSIVE Triplets(_)
Triplets(s) ==
    IF s = <<>> THEN <<>> ELSE <<SubSeq(s, 1, 3)>> \o Triplets(SubSeq(s, 4, Len(s)))

RefGroups(b) ==
    LET first == ((Len(b) - 1) % 3) + 1
    IN  <<SubSeq(b, 1, first)>> \o Triplets(SubSeq(b, first + 1, Len(b)))

RECURSIVE Flatten(_)
Flatten(gs) == IF gs = <<>> THEN <<>> ELSE Head(gs) \o Flatten(Tail(gs))

RECURSIVE Join(_, _)
Join(gs, sep) ==
    IF Len(gs) = 1 THEN gs[1] ELSE gs[1] \o sep \o Join(Tail(gs), sep)

\* the sanitizer removes the separator under this configuration
SeparatorIsStripped(config) ==
    LET c == config.separator.val[1]
    IN  IF config.normalize THEN c \notin Digits \cup {"k", "K"}
        ELSE c \in {".", "-"} \cup Whitespace

OptionsAreValid == ~IsThrow(validateAndMergeOptions(options))

Config == MergeOptions(options)

-----------------------------------------------------------------------------
(* Properties *)

\* C1: for a non-empty digit body b and a character c of 0123456789K,
\* validateRut(b + c) with default options is true exactly when c is
\* generateCheckDigit(b); for an empty, non-string or shape-invalid input it
\* is false.
C1_ValidateIffCheckDigit ==
    (op = "validateRut" /\ options = <<>>) =>
        IF IsString(input) /\ MatchesRutShape(input.val)
        THEN result = Bool(Str(<<LastOf(input.val)>>)
                           = generateCheckDigit(Str(BodyOf(input.val))))
        ELSE (~IsString(input) \/ input.val = <<>>
              \/ ~MatchesRutShape(sanitizeInput(input, TRUE)))
             => result = False

\* a valid and an invalid identifier with a seven-digit body were validated
C1_Witness ==
    /\ op = "validateRut"
    /\ input = Str(<<"1", "8", "9", "2", "7", "5", "8", "9", "7">>)
    /\ result = True

\* C2 (as claimed): generateCheckDigit(b) is the digit-wise modulo-11 check
\* digit of every non-empty digit body b, and false for every other body.
C2_ReferenceCheckDigit ==
    op = "generateCheckDigit" =>
        IF IsString(input) /\ MatchesDigits(input.val)
        THEN result = Str(<<RefCheckDigit(input.val)>>)
        ELSE result = False

\* C3 (as claimed): for a digit body b and every valid configuration,
\* rutify(b + generateCheckDigit(b)) is a string that validateRut accepts
\* under the same configuration.
C3_FormatThenValidate ==
    (op = "rutify" /\ input \in ValidRuts /\ OptionsAreValid) =>
        result # False /\ validateRut(result, options) = True

\* C3 (amended): the same, for the configurations whose format is compact or
\* clean or whose separator the sanitizer removes.
C3_FormatThenValidateStripped ==
    (/\ op = "rutify"
     /\ input \in ValidRuts
     /\ OptionsAreValid
     /\ (Config.format # StandardFormat \/ SeparatorIsStripped(Config))) =>
        result # False /\ validateRut(result, options) = True

\* an eight-digit body was formatted with the separator x and validates
C3_Witness ==
    /\ op = "rutify"
    /\ input \in ValidRuts
    /\ Len(input.val) = 9
    /\ OptionsAreValid
    /\ Config.format = StandardFormat
    /\ Config.separator = Str(<<"x">>)
    /\ Config.normalize
    /\ IsString(result)
    /\ Len(result.val) = 12
    /\ validateRut(result, options) = True

\* C4: for a shape-valid input with sanitized digit body B and check digit D,
\* rutify returns B-D (compact), BD (clean), or (standard) the groups of B,
\* every group of 3 digits except a leftmost one of 1 to 3, joined by the
\* separator and followed by -D.
C4_FormatLayout ==
    (/\ op = "rutify"
     /\ OptionsAreValid
     /\ isValidRutInput(input, Config.strict)
     /\ MatchesDigits(BodyOf(cleanRutString(input, Config.normalize)))) =>
        LET clear == cleanRutString(input, Config.normalize)
            B == BodyOf(clear)
            D == <<LastOf(clear)>>
            groups == RefGroups(B)
        IN  /\ Flatten(groups) = B
            /\ Len(groups[1]) \in 1..3
            /\ \A i \in 2..Len(groups) : Len(groups[i]) = 3
            /\ result =
                 IF Config.format = CompactFormat THEN Str(B \o <<"-">> \o D)
                 ELSE IF Config.format = CleanFormat THEN Str(B \o D)
                 ELSE Str(Join(groups, Config.separator.val) \o <<"-">> \o D)

\* a seven-digit body was rendered in three groups
C4_Witness ==
    /\ op = "rutify"
    /\ input = Str(<<"1", "2", "3", "4", "5", "6", "7", "k">>)
    /\ Config.format = StandardFormat
    /\ result = Str(<<"1", ".", "2", "3", "4", ".", "5", "6", "7", "-", "K">>)

\* C5 (as claimed): under every valid configuration, formatting a formatted
\* string again gives the same string.
C5_Idempotent ==
    (op = "rutify" /\ OptionsAreValid /\ result # False) =>
        rutify(result, options) = result

\* C5 (amended): the same, for the configurations whose format is compact or
\* clean or whose separator the sanitizer removes.
C5_IdempotentStripped ==
    (/\ op = "rutify"
     /\ OptionsAreValid
     /\ result # False
     /\ (Config.format # StandardFormat \/ SeparatorIsStripped(Config))) =>
        rutify(result, options) = result

\* an unformatted input was formatted into a different string with two
\* separators, without normalization, and formatted again
C5_Witness ==
    /\ op = "rutify"
    /\ input = Str(<<"1", "2", "3", "4", "5", "6", "7", "k">>)
    /\ ~Config.normalize
    /\ Config.separator = Str(<<" ">>)
    /\ Config.format = StandardFormat
    /\ result = Str(<<"1", " ", "2", "3", "4", " ", "5", "6", "7", "-", "K">>)
    /\ rutify(result, options) = result

\* C6: for every input x that normalize accepts and every output format,
\* extractBody(rutify(x)) followed by extractCheckDigit(rutify(x)) is
\* normalize(x), with the default separator and default extraction options.
C6_RoundTrip ==
    (/\ op = "rutify"
     /\ OptionsAreValid
     /\ Config.separator = DEFAULT_OPTIONS.separator
     /\ Config.normalize = DEFAULT_OPTIONS.normalize
     /\ normalize(input) # False) =>
        /\ result # False
        /\ extractBody(result, <<>>) # False
        /\ extractCheckDigit(result, <<>>) # False
        /\ extractBody(result, <<>>).val \o extractCheckDigit(result, <<>>).val
             = normalize(input).val

\* a noisy input was formatted in the standard layout and its parts read back
C6_Witness ==
    /\ op = "rutify"
    /\ input = Str(<<"1", "2", "3", "4", "5", "6", "a", "k">>)
    /\ Config.separator = DEFAULT_OPTIONS.separator
    /\ Config.normalize
    /\ result = Str(<<"1", "2", "3", ".", "4", "5", "6", "-", "K">>)
    /\ extractBody(result, <<>>) = Str(<<"1", "2", "3", "4", "5", "6">>)
    /\ extractCheckDigit(result, <<>>) = Str(<<"K">>)
    /\ normalize(input) = Str(<<"1", "2", "3", "4", "5", "6", "K">>)

\* C7 (as claimed): whenever rutify returns a string, the body it rendered
\* (the sanitized identifier minus its last character) is a non-empty string
\* of digits and the rendered check digit is one of 0123456789K, under every
\* valid configuration.
C7_RenderedBodyIsDigits ==
    (op = "rutify" /\ IsString(result)) =>
        LET clear == cleanRutString(input, Config.normalize)
        IN  /\ MatchesDigits(BodyOf(clear))
            /\ LastOf(clear) \in Digits \cup {"K"}

\* C8: when the sanitized input has fewer than 2 characters, rutify,
\* validateRut, extractBody, extractCheckDigit, normalize and isFormat return
\* false and rutifyAndValidate returns formatted = false and isValid = false.
C8_ShortInputRejected ==
    (/\ op \notin {"none", "generateCheckDigit"}
     /\ Len(sanitizeInput(input, TRUE)) < 2) =>
        IF op = "rutifyAndValidate"
        THEN result.formatted = False /\ result.isValid = False
        ELSE result = False

\* an input that sanitizes to one digit was given to rutify with valid options
C8_Witness ==
    /\ op = "rutify"
    /\ input = Str(<<"7", "-">>)
    /\ OptionsAreValid
    /\ result = False

\* C9 (as claimed): rutifyAndValidate answers every rejected input (empty,
\* non-string or shape-invalid) with formatted = false, isValid = false and a
\* non-null error; error is null only for a shape-valid input.
C9_RejectedHasError ==
    op = "rutifyAndValidate" =>
        LET rejected == isEmptyString(input)
                        \/ ~MatchesRutShape(sanitizeInput(input, TRUE))
        IN  /\ rejected => /\ result.formatted = False
                           /\ result.isValid = False
                           /\ result.error # Null
            /\ result.error = Null => ~rejected

\* C10: no public operation raises.  Under an invalid configuration rutify,
\* validateRut, extractBody and extractCheckDigit return false, isFormat
\* returns false for an unknown format name, and rutifyAndValidate returns
\* formatted = false, isValid = false and an error message; only the option
\* resolver raises the configuration error.
C10_NoRaise ==
    /\ op # "none" => ~IsThrow(result)
    /\ (op \in {"rutify", "validateRut", "extractBody", "extractCheckDigit"}
        /\ ~OptionsAreValid) => result = False
    /\ (op = "isFormat" /\ IsString(FormatArgument)
        /\ FormatArgument \notin validFormats) => result = False
    /\ (op = "rutifyAndValidate" /\ ~OptionsAreValid) =>
           /\ result.formatted = False
           /\ result.isValid = False
           /\ IsString(result.error)
           /\ result.error.val # <<>>

\* a shape-valid input was given to rutify with a two-character separator:
\* the resolver raised INVALID_OPTION and rutify returned false
C10_Witness ==
    /\ op = "rutify"
    /\ input = Str(<<"1", "2", "7">>)
    /\ options = [separator |-> Str(<<".", ".">>)]
    /\ validateAndMergeOptions(options).val[1] = "INVALID_OPTION"
    /\ result = False

\* C11 (as claimed): rutify returns false for the documented invalid input
\* '123'.
C11_ThreeDigitsRejected ==
    (op = "rutify" /\ input = Str(<<"1", "2", "3">>) /\ options = <<>>) =>
        result = False

\* the value false as an extraction result becomes null in the record
NullIfFalse(v) == IF v = False THEN Null ELSE v

\* the body that an operation reads: the input sanitized under the
\* configuration, minus its last character
SanitizedBody == slice(cleanRutString(input, Config.normalize), 0, -1)

\* C12 (as claimed): under every valid configuration a check digit that
\* extractCheckDigit returns is one character of 0123456789K, a body that
\* extractBody returns is a non-empty string of digits, and both return false
\* when the sanitized body contains a character that is not a digit.
C12_ExtractedAlphabet ==
    /\ (op = "extractCheckDigit" /\ OptionsAreValid /\ result # False) =>
           /\ IsString(result)
           /\ Len(result.val) = 1
           /\ result.val[1] \in Digits \cup {"K"}
    /\ (op = "extractBody" /\ OptionsAreValid /\ result # False) =>
           IsString(result) /\ MatchesDigits(result.val)
    /\ (op \in {"extractBody", "extractCheckDigit"} /\ OptionsAreValid
        /\ ~AllDigits(SanitizedBody)) => result = False

\* C13 (as claimed): for a non-empty input and a valid configuration the
\* record of rutifyAndValidate holds the results of rutify, validateRut,
\* extractBody and extractCheckDigit (null for false), so body and checkDigit
\* are non-null only when formatted is not false.
C13_RecordCombines ==
    (op = "rutifyAndValidate" /\ OptionsAreValid /\ ~isEmptyString(input)) =>
        /\ result.formatted = rutify(input, options)
        /\ result.isValid = validateRut(input, options)
        /\ result.body = NullIfFalse(extractBody(input, options))
        /\ result.checkDigit = NullIfFalse(extractCheckDigit(input, options))
        /\ (result.body # Null \/ result.checkDigit # Null) =>
               result.formatted # False

\* C14 (as claimed): the legacy rutify and the main rutify with default
\* options return different strings on some shape-valid input whose digit
\* body has at most 7 digits.
C14_LegacyDiffersOnShortBody ==
    op = "legacyRutify" =>
        \E x \in RawInputs \cup ValidRuts :
            /\ isValidRutInput(x, FALSE)
            /\ Len(cleanRutString(x, TRUE)) <= 8
            /\ legacyRutify(x) # rutify(x, <<>>)

\* C14 (amended): on every shape-valid input the legacy rutify returns the
\* string that the main rutify returns with default options.
C14_LegacyAgreesOnValidShape ==
    (op = "legacyRutify" /\ isValidRutInput(input, FALSE)) =>
        /\ IsString(result)
        /\ result = rutify(input, <<>>)

\* a 7-digit body with its check digit, grouped 1 + 3 + 3 by the legacy rutify
C14_Witness ==
    /\ op = "legacyRutify"
    /\ input = Str(<<"1", "2", "3", "4", "5", "6", "7">>
                   \o generateCheckDigit(Str(<<"1", "2", "3", "4", "5", "6", "7">>)).val)
    /\ isValidRutInput(input, FALSE)
    /\ SubSeq(result.val, 1, 10) = <<"1", ".", "2", "3", "4", ".", "5", "6", "7", "-">>

\* C15 (as claimed): for a digit body of any length, bodies whose value a
\* double cannot hold exactly included, generateCheckDigit returns the check
\* digit of the digit-wise weighted sum.
C15_DigitWiseForAnyLength ==
    (op = "generateCheckDigit" /\ IsString(input) /\ MatchesDigits(input.val)) =>
        /\ IsString(result)
        /\ result.val = <<RefCheckDigit(input.val)>>

\* the body with the digit at position i replaced by d
ReplaceDigit(b, i, d) == [b EXCEPT ![i] = d]

\* C16 (as claimed): when validateRut accepts b + c, it rejects every b' + c
\* where b' is b with exactly one digit replaced by a different digit.
C16_SingleDigitErrorDetected ==
    (op = "validateRut" /\ result = True /\ IsString(input)
     /\ MatchesRutShape(input.val)) =>
        LET b == BodyOf(input.val)
            c == LastOf(input.val)
        IN  \A i \in 1..Len(b) : \A d \in Digits \ {b[i]} :
                validateRut(Str(ReplaceDigit(b, i, d) \o <<c>>), options) = False

====
